---- MODULE Spec2Model ----
(***************************************************************************)
(* Connect 4: the bitboard (board.py) and the negamax searches (engine.py). *)
(*                                                                         *)
(* A Python int used as a bit mask is modelled as the set of the indices   *)
(* of its 1 bits: & is intersection, ^ is symmetric difference, >> k moves *)
(* every index down by k and drops those below k, and + of a one-bit mask  *)
(* is binary addition with its carry.  Python ints are unbounded, so no    *)
(* width is lost.                                                          *)
(*                                                                         *)
(* The Zobrist constants are drawn by random.randrange(0, 1 << 64) when    *)
(* board.py is imported.  Each of the 85 constants is modelled as a key of *)
(* its own, and a hash value as the set of the keys XORed into it an odd   *)
(* number of times: what holds here holds for every draw whose constants   *)
(* do not cancel each other on the positions compared.                     *)
(***************************************************************************)
EXTENDS Integers, Sequences, FiniteSets, TLC

VARIABLES player_board, all_pieces, move_stack, hash,
          last, filled,
          transposition_table, nodes_visited, branches_pruned, tt_hits,
          ret

boardVars == <<player_board, all_pieces, move_stack, hash>>
engineVars == <<transposition_table, nodes_visited, branches_pruned, tt_hits>>
vars == <<player_board, all_pieces, move_stack, hash, last, filled,
          transposition_table, nodes_visited, branches_pruned, tt_hits, ret>>

(***************************************************************************)
(* Bounds of the model.                                                    *)
(***************************************************************************)
\* The caller of the Board picks any column during the first FreePly plies;
\* deeper in the game it drops into the lowest legal column.
FreePly == 3

(***************************************************************************)
(* board.py: constants.                                                    *)
(***************************************************************************)
NUM_ROWS == 6
NUM_COLS == 7
STRIDE == NUM_ROWS + 1

Cols == 0 .. (NUM_COLS - 1)

\* Python's int operators on masks.
BitAnd(a, b) == a \cap b
BitXor(a, b) == (a \ b) \cup (b \ a)
ShiftRight(a, k) == {i - k : i \in {j \in a : j >= k}}

RECURSIVE Carry(_, _)
Carry(a, i) == IF i \in a THEN Carry(a \ {i}, i + 1) ELSE a \cup {i}

\* a + m for a mask m with exactly one bit set.
BitAdd(a, m) == Carry(a, CHOOSE i \in m : TRUE)

COLUMN_MASKS == [c \in Cols |-> {STRIDE * c + r : r \in 0 .. (STRIDE - 2)}]
BOARD_MASK == UNION {COLUMN_MASKS[c] : c \in Cols}
BOTTOM_MASKS == [c \in Cols |-> {STRIDE * c}]
TOP_MASKS == [c \in Cols |-> {STRIDE * c + STRIDE - 2}]

\* Key ids: SQUARE_HASHES[s][ix] is key s * 42 + ix, SIDE_TO_MOVE_HASH the key after them.
SQUARE_HASHES ==
    [s \in 0 .. 1 |-> [ix \in 0 .. (NUM_COLS * NUM_ROWS - 1) |->
        {s * (NUM_COLS * NUM_ROWS) + ix}]]
SIDE_TO_MOVE_HASH == {2 * (NUM_COLS * NUM_ROWS)}

MOVE_MASK_TO_SQUARE_IX ==
    [m \in {{c * STRIDE + r} : c \in Cols, r \in 0 .. (NUM_ROWS - 1)} |->
        LET i == CHOOSE i \in m : TRUE
        IN  (i \div STRIDE) * NUM_ROWS + (i % STRIDE)]

(***************************************************************************)
(* board.py: class Board.  A board value is the record of its four fields; *)
(* a method that can raise returns the board it leaves and the exception.  *)
(***************************************************************************)
NewBoard == [player_board |-> {}, all_pieces |-> {}, move_stack |-> <<>>, hash |-> {}]

\* range(NUM_COLS)
ColRange == [i \in 1 .. NUM_COLS |-> i - 1]

\* get_legal_move_cols that tests the bottom cell of each column.
get_legal_move_cols_bottom(b) ==
    SelectSeq(ColRange, LAMBDA c : BitAnd(BOTTOM_MASKS[c], b.all_pieces) = {})

\* get_legal_move_cols that lists every column, full or not.
get_legal_move_cols_all(b) == ColRange

\* get_legal_move_cols that lists the legal columns from the highest down.
get_legal_move_cols_descending(b) ==
    LET up == SelectSeq(ColRange, LAMBDA c : BitAnd(TOP_MASKS[c], b.all_pieces) = {})
    IN  [i \in 1 .. Len(up) |-> up[Len(up) + 1 - i]]

get_legal_move_cols(b) ==
    SelectSeq(ColRange, LAMBDA c : BitAnd(TOP_MASKS[c], b.all_pieces) = {})

\* apply_move that swaps the player before it finds the column full.
apply_move_swap_early(b, c) ==
    IF c < 0 \/ c >= NUM_COLS
    THEN [board |-> b, exc |-> "IllegalMoveException"]
    ELSE LET move_mask == BitAnd(BitAdd(b.all_pieces, BOTTOM_MASKS[c]), COLUMN_MASKS[c])
             pb == BitXor(b.player_board, b.all_pieces)
         IN  IF move_mask = {}
             THEN [board |-> [b EXCEPT !.player_board = pb],
                   exc |-> "IllegalMoveException"]
             ELSE LET ap == BitXor(b.all_pieces, move_mask)
                      h1 == BitXor(b.hash, SIDE_TO_MOVE_HASH)
                      h2 == BitXor(h1, SQUARE_HASHES[Len(b.move_stack) % 2][MOVE_MASK_TO_SQUARE_IX[move_mask]])
                  IN  [board |-> [player_board |-> pb, all_pieces |-> ap,
                                  move_stack |-> Append(b.move_stack, move_mask),
                                  hash |-> h2],
                       exc |-> "none"]

\* apply_move that looks the square's key up by the ply, not by the square.
apply_move_ply_key(b, c) ==
    IF c < 0 \/ c >= NUM_COLS
    THEN [board |-> b, exc |-> "IllegalMoveException"]
    ELSE LET move_mask == BitAnd(BitAdd(b.all_pieces, BOTTOM_MASKS[c]), COLUMN_MASKS[c])
         IN  IF move_mask = {}
             THEN [board |-> b, exc |-> "IllegalMoveException"]
             ELSE LET pb == BitXor(b.player_board, b.all_pieces)
                      ap == BitXor(b.all_pieces, move_mask)
                      h1 == BitXor(b.hash, SIDE_TO_MOVE_HASH)
                      h2 == BitXor(h1, SQUARE_HASHES[Len(b.move_stack) % 2][Len(b.move_stack)])
                  IN  [board |-> [player_board |-> pb, all_pieces |-> ap,
                                  move_stack |-> Append(b.move_stack, move_mask),
                                  hash |-> h2],
                       exc |-> "none"]

\* apply_move that gives the new piece to the side it leaves to move.
apply_move_no_swap(b, c) ==
    IF c < 0 \/ c >= NUM_COLS
    THEN [board |-> b, exc |-> "IllegalMoveException"]
    ELSE LET move_mask == BitAnd(BitAdd(b.all_pieces, BOTTOM_MASKS[c]), COLUMN_MASKS[c])
         IN  IF move_mask = {}
             THEN [board |-> b, exc |-> "IllegalMoveException"]
             ELSE LET pb == BitXor(b.player_board, move_mask)
                      ap == BitXor(b.all_pieces, move_mask)
                      h1 == BitXor(b.hash, SIDE_TO_MOVE_HASH)
                      h2 == BitXor(h1, SQUARE_HASHES[Len(b.move_stack) % 2][MOVE_MASK_TO_SQUARE_IX[move_mask]])
                  IN  [board |-> [player_board |-> pb, all_pieces |-> ap,
                                  move_stack |-> Append(b.move_stack, move_mask),
                                  hash |-> h2],
                       exc |-> "none"]

apply_move(b, c) ==
    IF c < 0 \/ c >= NUM_COLS
    THEN [board |-> b, exc |-> "IllegalMoveException"]
    ELSE LET move_mask == BitAnd(BitAdd(b.all_pieces, BOTTOM_MASKS[c]), COLUMN_MASKS[c])
         IN  IF move_mask = {}
             THEN [board |-> b, exc |-> "IllegalMoveException"]
             ELSE LET pb == BitXor(b.player_board, b.all_pieces)
                      ap == BitXor(b.all_pieces, move_mask)
                      h1 == BitXor(b.hash, SIDE_TO_MOVE_HASH)
                      h2 == BitXor(h1, SQUARE_HASHES[Len(b.move_stack) % 2][MOVE_MASK_TO_SQUARE_IX[move_mask]])
                  IN  [board |-> [player_board |-> pb, all_pieces |-> ap,
                                  move_stack |-> Append(b.move_stack, move_mask),
                                  hash |-> h2],
                       exc |-> "none"]

\* unapply_move with the colour of the square's key taken before the pop.
unapply_move_stale_parity(b) ==
    IF b.move_stack = <<>>
    THEN [board |-> b, exc |-> "IndexError"]
    ELSE LET move_mask == b.move_stack[Len(b.move_stack)]
             stack == SubSeq(b.move_stack, 1, Len(b.move_stack) - 1)
             ap == BitXor(b.all_pieces, move_mask)
             pb == BitXor(b.player_board, ap)
             h1 == BitXor(b.hash, SIDE_TO_MOVE_HASH)
             h2 == BitXor(h1, SQUARE_HASHES[Len(b.move_stack) % 2][MOVE_MASK_TO_SQUARE_IX[move_mask]])
         IN  [board |-> [player_board |-> pb, all_pieces |-> ap,
                         move_stack |-> stack, hash |-> h2],
              exc |-> "none"]

\* unapply_move that swaps the player before it clears the move from all_pieces.
unapply_move_swap_first(b) ==
    IF b.move_stack = <<>>
    THEN [board |-> b, exc |-> "IndexError"]
    ELSE LET move_mask == b.move_stack[Len(b.move_stack)]
             stack == SubSeq(b.move_stack, 1, Len(b.move_stack) - 1)
             pb == BitXor(b.player_board, b.all_pieces)
             ap == BitXor(b.all_pieces, move_mask)
             h1 == BitXor(b.hash, SIDE_TO_MOVE_HASH)
             h2 == BitXor(h1, SQUARE_HASHES[Len(stack) % 2][MOVE_MASK_TO_SQUARE_IX[move_mask]])
         IN  [board |-> [player_board |-> pb, all_pieces |-> ap,
                         move_stack |-> stack, hash |-> h2],
              exc |-> "none"]

\* unapply_move that flips the side-to-move key before it pops the stack.
unapply_move_late_pop(b) ==
    IF b.move_stack = <<>>
    THEN [board |-> [b EXCEPT !.hash = BitXor(b.hash, SIDE_TO_MOVE_HASH)],
          exc |-> "IndexError"]
    ELSE LET move_mask == b.move_stack[Len(b.move_stack)]
             stack == SubSeq(b.move_stack, 1, Len(b.move_stack) - 1)
             ap == BitXor(b.all_pieces, move_mask)
             pb == BitXor(b.player_board, ap)
             h1 == BitXor(b.hash, SIDE_TO_MOVE_HASH)
             h2 == BitXor(h1, SQUARE_HASHES[Len(stack) % 2][MOVE_MASK_TO_SQUARE_IX[move_mask]])
         IN  [board |-> [player_board |-> pb, all_pieces |-> ap,
                         move_stack |-> stack, hash |-> h2],
              exc |-> "none"]

\* unapply_move that takes the move off both masks and does not swap the player.
unapply_move_keep_player(b) ==
    IF b.move_stack = <<>>
    THEN [board |-> b, exc |-> "IndexError"]
    ELSE LET move_mask == b.move_stack[Len(b.move_stack)]
             stack == SubSeq(b.move_stack, 1, Len(b.move_stack) - 1)
             ap == BitXor(b.all_pieces, move_mask)
             pb == BitAnd(b.player_board, ap)
             h1 == BitXor(b.hash, SIDE_TO_MOVE_HASH)
             h2 == BitXor(h1, SQUARE_HASHES[Len(stack) % 2][MOVE_MASK_TO_SQUARE_IX[move_mask]])
         IN  [board |-> [player_board |-> pb, all_pieces |-> ap,
                         move_stack |-> stack, hash |-> h2],
              exc |-> "none"]

unapply_move(b) ==
    IF b.move_stack = <<>>
    THEN [board |-> b, exc |-> "IndexError"]
    ELSE LET move_mask == b.move_stack[Len(b.move_stack)]
             stack == SubSeq(b.move_stack, 1, Len(b.move_stack) - 1)
             ap == BitXor(b.all_pieces, move_mask)
             pb == BitXor(b.player_board, ap)
             h1 == BitXor(b.hash, SIDE_TO_MOVE_HASH)
             h2 == BitXor(h1, SQUARE_HASHES[Len(stack) % 2][MOVE_MASK_TO_SQUARE_IX[move_mask]])
         IN  [board |-> [player_board |-> pb, all_pieces |-> ap,
                         move_stack |-> stack, hash |-> h2],
              exc |-> "none"]

\* has_four whose vertical test pairs the 2-in-a-rows one row apart.
has_four_three(mask) ==
    LET m1 == BitAnd(mask, ShiftRight(mask, 1))
        m2 == BitAnd(mask, ShiftRight(mask, STRIDE))
        m3 == BitAnd(mask, ShiftRight(mask, STRIDE - 1))
        m4 == BitAnd(mask, ShiftRight(mask, STRIDE + 1))
    IN  \/ BitAnd(m1, ShiftRight(m1, 1)) # {}
        \/ BitAnd(m2, ShiftRight(m2, 2 * STRIDE)) # {}
        \/ BitAnd(m3, ShiftRight(m3, 2 * (STRIDE - 1))) # {}
        \/ BitAnd(m4, ShiftRight(m4, 2 * (STRIDE + 1))) # {}

has_four(mask) ==
    LET m1 == BitAnd(mask, ShiftRight(mask, 1))
        m2 == BitAnd(mask, ShiftRight(mask, STRIDE))
        m3 == BitAnd(mask, ShiftRight(mask, STRIDE - 1))
        m4 == BitAnd(mask, ShiftRight(mask, STRIDE + 1))
    IN  \/ BitAnd(m1, ShiftRight(m1, 2)) # {}
        \/ BitAnd(m2, ShiftRight(m2, 2 * STRIDE)) # {}
        \/ BitAnd(m3, ShiftRight(m3, 2 * (STRIDE - 1))) # {}
        \/ BitAnd(m4, ShiftRight(m4, 2 * (STRIDE + 1))) # {}

opp_board(b) == BitXor(b.all_pieces, b.player_board)

\* last_move_won that looks at the pieces of the side to move.
last_move_won_player(b) == has_four(b.player_board)

last_move_won(b) == has_four(BitXor(b.all_pieces, b.player_board))

is_full(b) == BitAnd(b.all_pieces, BOARD_MASK) = BOARD_MASK

(***************************************************************************)
(* engine.py.  An engine value is the record of the Engine's four fields.  *)
(* A search takes the engine and the board it mutates and returns its      *)
(* value with the engine and the board as it leaves them; exc is the       *)
(* exception a Board call raised, which ends the search where it is raised.*)
(***************************************************************************)
WIN_EVAL == 10000
LOSS_EVAL == 0 - WIN_EVAL
DRAW_EVAL == 0

Max(a, b) == IF a >= b THEN a ELSE b
Min(a, b) == IF a <= b THEN a ELSE b

center_weight(mask) ==
    3 * Cardinality(BitAnd(mask, COLUMN_MASKS[3]))
    + 2 * Cardinality(BitAnd(mask, COLUMN_MASKS[2]))
    + 2 * Cardinality(BitAnd(mask, COLUMN_MASKS[4]))

eval(b) == center_weight(b.player_board) - center_weight(opp_board(b))

\* restored, peak, applied and log are no fields of Engine: restored records that
\* every search call that has returned so far left the Board as it was when the
\* call was entered, peak the longest move stack an apply_move of the search has
\* left, applied the apply_move calls of the search that returned, and log what
\* the search did, in order: a "node" event at the return of each call, a "write"
\* event at each store into the table, a "loop" event at the end of each for loop
\* of negamax_alphabeta and negamax_alphabeta_tt.
NewEngine == [transposition_table |-> <<>>, nodes_visited |-> 0,
              branches_pruned |-> 0, tt_hits |-> 0, restored |-> TRUE, peak |-> 0,
              applied |-> 0, log |-> <<>>]

Visit(e) == [e EXCEPT !.nodes_visited = @ + 1]

\* board.apply_move(c) has returned with board b.
Pushed(e, b) == [e EXCEPT !.peak = Max(@, Len(b.move_stack)), !.applied = @ + 1]

\* The engine with one more event in its log.
Note(e, ev) == [e EXCEPT !.log = Append(@, ev)]

\* The result of a call, with the event of its return in the log.
Noted(r, ev) ==
    IF r.exc # "none" THEN r
    ELSE [r EXCEPT !.engine.log = Append(@, ev)]

\* The return of a search call that was entered with board b.
Leave(r, b) ==
    IF r.exc # "none" THEN r
    ELSE [r EXCEPT !.engine.restored = @ /\ (r.board = b)]

Return(v, b, e) == [value |-> v, board |-> b, engine |-> e, exc |-> "none"]
Raise(x, b, e) == [value |-> 0, board |-> b, engine |-> e, exc |-> x]

RECURSIVE negamax(_, _, _)
RECURSIVE negamax_loop(_, _, _, _, _, _)

\* The loop of negamax that searches each move to the depth of its own node.
negamax_loop_same_depth(e, b, depth, candidates, i, value) ==
    IF i > Len(candidates) THEN Return(value, b, e)
    ELSE
    LET a == apply_move(b, candidates[i])
        ea == Pushed(e, a.board)
    IN  IF a.exc # "none" THEN Raise(a.exc, a.board, e)
        ELSE IF last_move_won(a.board)
        THEN LET u == unapply_move(a.board)
             IN  IF u.exc # "none" THEN Raise(u.exc, u.board, ea)
                 ELSE Return(WIN_EVAL - (depth - 1), u.board, ea)
        ELSE LET r == negamax(ea, a.board, depth)
             IN  IF r.exc # "none" THEN r
                 ELSE LET u == unapply_move(r.board)
                      IN  IF u.exc # "none" THEN Raise(u.exc, u.board, r.engine)
                          ELSE negamax_loop(r.engine, u.board, depth, candidates,
                                            i + 1, Max(value, 0 - r.value))

\* The for loop of negamax from candidate i on, with the value found so far.
negamax_loop(e, b, depth, candidates, i, value) ==
    IF i > Len(candidates) THEN Return(value, b, e)
    ELSE
    LET a == apply_move(b, candidates[i])
        ea == Pushed(e, a.board)
    IN  IF a.exc # "none" THEN Raise(a.exc, a.board, e)
        ELSE IF last_move_won(a.board)
        THEN LET u == unapply_move(a.board)
             IN  IF u.exc # "none" THEN Raise(u.exc, u.board, ea)
                 ELSE Return(WIN_EVAL - (depth - 1), u.board, ea)
        ELSE LET r == negamax(ea, a.board, depth - 1)
             IN  IF r.exc # "none" THEN r
                 ELSE LET u == unapply_move(r.board)
                      IN  IF u.exc # "none" THEN Raise(u.exc, u.board, r.engine)
                          ELSE negamax_loop(r.engine, u.board, depth, candidates,
                                            i + 1, Max(value, 0 - r.value))

negamax(e0, b, depth) ==
    LET e == Visit(e0)
    IN  Leave(Noted(IF last_move_won(b) THEN Return(LOSS_EVAL + depth, b, e)
                    ELSE IF is_full(b) THEN Return(DRAW_EVAL, b, e)
                    ELSE IF depth = 0 THEN Return(eval(b), b, e)
                    ELSE negamax_loop(e, b, depth, get_legal_move_cols(b), 1,
                                      LOSS_EVAL),
                    [kind |-> "node"]),
              b)

RECURSIVE negamax_alphabeta(_, _, _, _, _)
RECURSIVE negamax_alphabeta_loop(_, _, _, _, _, _, _, _)

\* The loop ended with every candidate tried: nothing is added to branches_pruned.
Tried(e, candidates) ==
    Note(e, [kind |-> "loop", k |-> Len(candidates), applied |-> Len(candidates),
             pruned |-> 0])

\* The len(candidates) - i - 1 of the source taken with the i of this module,
\* which counts from 1: one untried candidate too few.
Pruned_from_one(e, candidates, i) ==
    LET n == Len(candidates) - i - 1
    IN  Note([e EXCEPT !.branches_pruned = @ + n],
             [kind |-> "loop", k |-> Len(candidates), applied |-> i, pruned |-> n])

\* The loop ended at candidate i, counted from 1, so that the
\* len(candidates) - i - 1 of the source is Len(candidates) - i here.
Pruned(e, candidates, i) ==
    LET n == Len(candidates) - i
    IN  Note([e EXCEPT !.branches_pruned = @ + n],
             [kind |-> "loop", k |-> Len(candidates), applied |-> i, pruned |-> n])

\* The loop of negamax_alphabeta that scores an immediate win by the depth left
\* after the winning move.
negamax_alphabeta_loop_child_depth(e, b, depth, alpha, beta, candidates, i, value) ==
    IF i > Len(candidates) THEN Return(value, b, Tried(e, candidates))
    ELSE
    LET a == apply_move(b, candidates[i])
        ea == Pushed(e, a.board)
    IN  IF a.exc # "none" THEN Raise(a.exc, a.board, e)
        ELSE IF last_move_won(a.board)
        THEN LET u == unapply_move(a.board)
             IN  IF u.exc # "none" THEN Raise(u.exc, u.board, ea)
                 ELSE Return(WIN_EVAL - (depth - 2), u.board, Pruned(ea, candidates, i))
        ELSE LET r == negamax_alphabeta(ea, a.board, depth - 1, 0 - beta, 0 - alpha)
             IN  IF r.exc # "none" THEN r
                 ELSE LET u == unapply_move(r.board)
                          v == Max(value, 0 - r.value)
                          al == Max(alpha, v)
                      IN  IF u.exc # "none" THEN Raise(u.exc, u.board, r.engine)
                          ELSE IF al >= beta
                          THEN Return(v, u.board, Pruned(r.engine, candidates, i))
                          ELSE negamax_alphabeta_loop(r.engine, u.board, depth, al, beta,
                                                      candidates, i + 1, v)

\* The for loop of negamax_alphabeta from candidate i on (i counts from 1, so the
\* len(candidates) - i - 1 of the source is Len(candidates) - i here).
negamax_alphabeta_loop(e, b, depth, alpha, beta, candidates, i, value) ==
    IF i > Len(candidates) THEN Return(value, b, Tried(e, candidates))
    ELSE
    LET a == apply_move(b, candidates[i])
        ea == Pushed(e, a.board)
    IN  IF a.exc # "none" THEN Raise(a.exc, a.board, e)
        ELSE IF last_move_won(a.board)
        THEN LET u == unapply_move(a.board)
             IN  IF u.exc # "none" THEN Raise(u.exc, u.board, ea)
                 ELSE Return(WIN_EVAL - (depth - 1), u.board, Pruned(ea, candidates, i))
        ELSE LET r == negamax_alphabeta(ea, a.board, depth - 1, 0 - beta, 0 - alpha)
             IN  IF r.exc # "none" THEN r
                 ELSE LET u == unapply_move(r.board)
                          v == Max(value, 0 - r.value)
                          al == Max(alpha, v)
                      IN  IF u.exc # "none" THEN Raise(u.exc, u.board, r.engine)
                          ELSE IF al >= beta
                          THEN Return(v, u.board, Pruned(r.engine, candidates, i))
                          ELSE negamax_alphabeta_loop(r.engine, u.board, depth, al, beta,
                                                      candidates, i + 1, v)

negamax_alphabeta(e0, b, depth, alpha, beta) ==
    LET e == Visit(e0)
    IN  Leave(Noted(IF last_move_won(b) THEN Return(LOSS_EVAL + depth, b, e)
                    ELSE IF is_full(b) THEN Return(DRAW_EVAL, b, e)
                    ELSE IF depth = 0 THEN Return(eval(b), b, e)
                    ELSE negamax_alphabeta_loop(e, b, depth, alpha, beta,
                                                get_legal_move_cols(b), 1, alpha),
                    [kind |-> "node"]),
              b)

\* The tags of a fail-low and a fail-high exchanged.
TTBound_swapped(value, orig_alpha, orig_beta) ==
    IF value <= orig_alpha THEN "LOWER"
    ELSE IF value >= orig_beta THEN "UPPER"
    ELSE "EXACT"

TTBound(value, orig_alpha, orig_beta) ==
    IF value <= orig_alpha THEN "UPPER"
    ELSE IF value >= orig_beta THEN "LOWER"
    ELSE "EXACT"

\* update_tt that stores whatever the depth of the entry it finds.
update_tt_overwrite(e, h, depth, value, orig_alpha, orig_beta) ==
    LET tt == e.transposition_table
        entry == [depth |-> depth, score |-> value,
                  bound |-> TTBound(value, orig_alpha, orig_beta)]
    IN  Note([e EXCEPT !.transposition_table =
                 IF h \in DOMAIN tt THEN [tt EXCEPT ![h] = entry]
                 ELSE (h :> entry) @@ tt],
             [kind |-> "write", key |-> h, entry |-> entry])

update_tt(e, h, depth, value, orig_alpha, orig_beta) ==
    LET tt == e.transposition_table
    IN  IF h \in DOMAIN tt /\ tt[h].depth > depth THEN e
        ELSE LET entry == [depth |-> depth, score |-> value,
                           bound |-> TTBound(value, orig_alpha, orig_beta)]
             IN  Note([e EXCEPT !.transposition_table =
                          IF h \in DOMAIN tt THEN [tt EXCEPT ![h] = entry]
                          ELSE (h :> entry) @@ tt],
                      [kind |-> "write", key |-> h, entry |-> entry])

RECURSIVE negamax_alphabeta_tt(_, _, _, _, _)
RECURSIVE negamax_alphabeta_tt_loop(_, _, _, _, _, _, _, _, _, _)

\* The loop of negamax_alphabeta_tt with no unapply_move before the return of an
\* immediate win.
negamax_alphabeta_tt_loop_no_unapply(e, b, depth, alpha, beta, orig_alpha, orig_beta, candidates, i, value) ==
    IF i > Len(candidates)
    THEN Return(value, b, update_tt(Tried(e, candidates), b.hash, depth, value,
                                    orig_alpha, orig_beta))
    ELSE
    LET a == apply_move(b, candidates[i])
        ea == Pushed(e, a.board)
    IN  IF a.exc # "none" THEN Raise(a.exc, a.board, e)
        ELSE IF last_move_won(a.board)
        THEN LET win == WIN_EVAL - (depth - 1)
             IN  Return(win, a.board,
                        update_tt(Pruned(ea, candidates, i), a.board.hash, depth,
                                  win, orig_alpha, orig_beta))
        ELSE LET r == negamax_alphabeta_tt(ea, a.board, depth - 1, 0 - beta, 0 - alpha)
             IN  IF r.exc # "none" THEN r
                 ELSE LET u == unapply_move(r.board)
                          v == Max(value, 0 - r.value)
                          al == Max(alpha, v)
                      IN  IF u.exc # "none" THEN Raise(u.exc, u.board, r.engine)
                          ELSE IF al >= beta
                          THEN Return(v, u.board,
                                      update_tt(Pruned(r.engine, candidates, i),
                                                u.board.hash, depth, v,
                                                orig_alpha, orig_beta))
                          ELSE negamax_alphabeta_tt_loop(r.engine, u.board, depth, al, beta,
                                                         orig_alpha, orig_beta,
                                                         candidates, i + 1, v)

\* The for loop of negamax_alphabeta_tt from candidate i on, and the update_tt
\* and return that follow it.
negamax_alphabeta_tt_loop(e, b, depth, alpha, beta, orig_alpha, orig_beta, candidates, i, value) ==
    IF i > Len(candidates)
    THEN Return(value, b, update_tt(Tried(e, candidates), b.hash, depth, value,
                                    orig_alpha, orig_beta))
    ELSE
    LET a == apply_move(b, candidates[i])
        ea == Pushed(e, a.board)
    IN  IF a.exc # "none" THEN Raise(a.exc, a.board, e)
        ELSE IF last_move_won(a.board)
        THEN LET u == unapply_move(a.board)
                 win == WIN_EVAL - (depth - 1)
             IN  IF u.exc # "none" THEN Raise(u.exc, u.board, ea)
                 ELSE Return(win, u.board,
                             update_tt(Pruned(ea, candidates, i), u.board.hash, depth,
                                       win, orig_alpha, orig_beta))
        ELSE LET r == negamax_alphabeta_tt(ea, a.board, depth - 1, 0 - beta, 0 - alpha)
             IN  IF r.exc # "none" THEN r
                 ELSE LET u == unapply_move(r.board)
                          v == Max(value, 0 - r.value)
                          al == Max(alpha, v)
                      IN  IF u.exc # "none" THEN Raise(u.exc, u.board, r.engine)
                          ELSE IF al >= beta
                          THEN Return(v, u.board,
                                      update_tt(Pruned(r.engine, candidates, i),
                                                u.board.hash, depth, v,
                                                orig_alpha, orig_beta))
                          ELSE negamax_alphabeta_tt_loop(r.engine, u.board, depth, al, beta,
                                                         orig_alpha, orig_beta,
                                                         candidates, i + 1, v)

\* The table lookup in which an UPPER entry raises alpha and a LOWER entry lowers
\* beta.
tt_probe_exchanged(tt_entry, alpha, beta, orig_beta) ==
    IF tt_entry.bound = "EXACT"
    THEN [done |-> TRUE, store |-> FALSE, score |-> tt_entry.score,
          alpha |-> alpha, beta |-> beta]
    ELSE LET al == IF tt_entry.bound = "UPPER" THEN Max(alpha, tt_entry.score) ELSE alpha
             be == IF tt_entry.bound = "LOWER" THEN Min(beta, tt_entry.score) ELSE beta
         IN  IF al >= be
             THEN [done |-> TRUE, store |-> TRUE,
                   score |-> IF be < orig_beta THEN be ELSE al,
                   alpha |-> al, beta |-> be]
             ELSE [done |-> FALSE, store |-> FALSE, score |-> 0,
                   alpha |-> al, beta |-> be]

\* The table lookup of negamax_alphabeta_tt, for an entry deep enough: the score to
\* return at once (done), or the window to search with.
tt_probe(tt_entry, alpha, beta, orig_beta) ==
    IF tt_entry.bound = "EXACT"
    THEN [done |-> TRUE, store |-> FALSE, score |-> tt_entry.score,
          alpha |-> alpha, beta |-> beta]
    ELSE LET al == IF tt_entry.bound = "LOWER" THEN Max(alpha, tt_entry.score) ELSE alpha
             be == IF tt_entry.bound = "UPPER" THEN Min(beta, tt_entry.score) ELSE beta
         IN  IF al >= be
             THEN [done |-> TRUE, store |-> TRUE,
                   score |-> IF be < orig_beta THEN be ELSE al,
                   alpha |-> al, beta |-> be]
             ELSE [done |-> FALSE, store |-> FALSE, score |-> 0,
                   alpha |-> al, beta |-> be]

\* What the "node" event of a negamax_alphabeta_tt call shows as stored when the
\* table has no entry for the position.
NoEntry == [depth |-> 0 - 1, score |-> 0, bound |-> "NONE"]

\* The "node" event of a negamax_alphabeta_tt call entered with engine e0 (e once
\* counted) that returns r: the position, depth and window it was called with,
\* the entry it found, what it added to tt_hits itself (engine ee is the one its
\* loop starts with or its lookup returns with), the window al, be after the
\* lookup, whether it enumerated moves, and the length of the log at its entry.
NodeEvent(e0, e, b, depth, alpha, beta, r, terminal, ee, searched, al, be) ==
    LET tt == e.transposition_table
    IN  [kind |-> "node", node |-> b.hash, depth |-> depth, alpha |-> alpha,
         beta |-> beta, value |-> r.value, terminal |-> terminal,
         stored |-> IF b.hash \in DOMAIN tt THEN tt[b.hash] ELSE NoEntry,
         hits |-> ee.tt_hits - e.tt_hits, searched |-> searched,
         al |-> al, be |-> be, first |-> Len(e0.log)]

\* negamax_alphabeta_tt that stores with the window its lookup has narrowed.
negamax_alphabeta_tt_narrowed(e0, b, depth, alpha, beta) ==
    LET e == Visit(e0)
        tt == e.transposition_table
        node(r, terminal, ee, searched, al, be) ==
            Noted(r, NodeEvent(e0, e, b, depth, alpha, beta, r, terminal, ee,
                               searched, al, be))
        search(ee, al, be) ==
            node(negamax_alphabeta_tt_loop(ee, b, depth, al, be, al, be,
                                           get_legal_move_cols(b), 1, al),
                 FALSE, ee, TRUE, al, be)
    IN  Leave(
        IF last_move_won(b)
        THEN node(Return(LOSS_EVAL + depth, b,
                         update_tt(e, b.hash, depth, LOSS_EVAL + depth, alpha, beta)),
                  TRUE, e, FALSE, alpha, beta)
        ELSE IF is_full(b)
        THEN node(Return(DRAW_EVAL, b,
                         update_tt(e, b.hash, depth, DRAW_EVAL, alpha, beta)),
                  TRUE, e, FALSE, alpha, beta)
        ELSE IF depth = 0
        THEN node(Return(eval(b), b,
                         update_tt(e, b.hash, depth, eval(b), alpha, beta)),
                  TRUE, e, FALSE, alpha, beta)
        ELSE IF b.hash \in DOMAIN tt /\ tt[b.hash].depth >= depth
        THEN LET hit == [e EXCEPT !.tt_hits = @ + 1]
                 p == tt_probe(tt[b.hash], alpha, beta, beta)
             IN  IF p.done
                 THEN node(Return(p.score, b,
                                  IF p.store
                                  THEN update_tt(hit, b.hash, depth, p.score,
                                                 p.alpha, p.beta)
                                  ELSE hit),
                           FALSE, hit, FALSE, p.alpha, p.beta)
                 ELSE search(hit, p.alpha, p.beta)
        ELSE search(e, alpha, beta),
        b)

negamax_alphabeta_tt(e0, b, depth, alpha, beta) ==
    LET e == Visit(e0)
        tt == e.transposition_table
        node(r, terminal, ee, searched, al, be) ==
            Noted(r, NodeEvent(e0, e, b, depth, alpha, beta, r, terminal, ee,
                               searched, al, be))
        search(ee, al, be) ==
            node(negamax_alphabeta_tt_loop(ee, b, depth, al, be, alpha, beta,
                                           get_legal_move_cols(b), 1, al),
                 FALSE, ee, TRUE, al, be)
    IN  Leave(
        IF last_move_won(b)
        THEN node(Return(LOSS_EVAL + depth, b,
                         update_tt(e, b.hash, depth, LOSS_EVAL + depth, alpha, beta)),
                  TRUE, e, FALSE, alpha, beta)
        ELSE IF is_full(b)
        THEN node(Return(DRAW_EVAL, b,
                         update_tt(e, b.hash, depth, DRAW_EVAL, alpha, beta)),
                  TRUE, e, FALSE, alpha, beta)
        ELSE IF depth = 0
        THEN node(Return(eval(b), b,
                         update_tt(e, b.hash, depth, eval(b), alpha, beta)),
                  TRUE, e, FALSE, alpha, beta)
        ELSE IF b.hash \in DOMAIN tt /\ tt[b.hash].depth >= depth
        THEN LET hit == [e EXCEPT !.tt_hits = @ + 1]
                 p == tt_probe(tt[b.hash], alpha, beta, beta)
             IN  IF p.done
                 THEN node(Return(p.score, b,
                                  IF p.store
                                  THEN update_tt(hit, b.hash, depth, p.score,
                                                 alpha, beta)
                                  ELSE hit),
                           FALSE, hit, FALSE, p.alpha, p.beta)
                 ELSE search(hit, p.alpha, p.beta)
        ELSE search(e, alpha, beta),
        b)

(***************************************************************************)
(* The Board as a state machine: one Board object and its callers.         *)
(***************************************************************************)
Board == [player_board |-> player_board, all_pieces |-> all_pieces,
          move_stack |-> move_stack, hash |-> hash]

SetBoard(b) ==
    /\ player_board' = b.player_board
    /\ all_pieces' = b.all_pieces
    /\ move_stack' = b.move_stack
    /\ hash' = b.hash

\* Engine.__init__
InitEngine ==
    /\ transposition_table = <<>>
    /\ nodes_visited = 0
    /\ branches_pruned = 0
    /\ tt_hits = 0

\* Board.__init__
Init ==
    /\ player_board = {}
    /\ all_pieces = {}
    /\ move_stack = <<>>
    /\ hash = {}
    /\ last = "init"
    /\ filled = FALSE
    /\ InitEngine
    /\ ret = <<>>

\* The columns a caller passes: every column, and one on each side of the range.
ColumnInputs == (0 - 1) .. NUM_COLS

\* The columns the caller of this model plays: any while the game is short,
\* the lowest legal one later, and any that apply_move refuses.
Played(c, refused) ==
    \/ Len(move_stack) < FreePly
    \/ refused
    \/ get_legal_move_cols(Board) # <<>> /\ get_legal_move_cols(Board)[1] = c

\* b.apply_move(c)
ApplyCall(c) ==
    LET r == apply_move(Board, c)
    IN  /\ SetBoard(r.board)
        /\ last' = IF r.exc = "none" THEN "apply_move" ELSE r.exc
        /\ filled' = IF r.exc = "none" THEN is_full(r.board) ELSE filled
        /\ UNCHANGED <<engineVars, ret>>

ApplyMove(c) ==
    /\ Played(c, apply_move(Board, c).exc # "none")
    /\ ApplyCall(c)

\* b.unapply_move()
UnapplyMove ==
    /\ LET r == unapply_move(Board)
       IN  /\ SetBoard(r.board)
           /\ last' = IF r.exc # "none" THEN r.exc
                      ELSE IF last = "apply_move" THEN "undo" ELSE "unapply_move"
    /\ UNCHANGED <<filled, engineVars, ret>>

Next ==
    \/ \E c \in ColumnInputs : ApplyMove(c)
    \/ UnapplyMove

Spec == Init /\ [][Next]_vars

(***************************************************************************)
(* The Board's claims, checked under Spec.                                 *)
(***************************************************************************)
Cell(c, r) == STRIDE * c + r
Sentinels == {Cell(c, NUM_ROWS) : c \in Cols}
Height(mask, c) == Cardinality(BitAnd(mask, COLUMN_MASKS[c]))

\* C1: in every reachable board and for every legal column c, apply_move(c)
\* followed at once by unapply_move() raises nothing and leaves all_pieces,
\* player_board, hash and the move stack as they were before the apply.
C1_ApplyUnapplyRestores ==
    \A c \in Cols :
        LET a == apply_move(Board, c)
        IN  a.exc = "none" =>
                /\ a.board # Board
                /\ unapply_move(a.board) = [board |-> Board, exc |-> "none"]

\* An unapply_move has just undone the apply_move before it, in mid-game.
C1_Witness ==
    /\ last = "undo"
    /\ Len(move_stack) >= FreePly

\* C5: apply_move(c) raises IllegalMoveException when c is outside 0..6 or column c
\* holds 6 pieces, and then leaves the four fields as they were; every other
\* apply_move(c) succeeds.
C5_IllegalMove ==
    \A c \in ColumnInputs :
        LET r == apply_move(Board, c)
        IN  IF c \notin Cols \/ Height(all_pieces, c) = NUM_ROWS
            THEN r.exc = "IllegalMoveException" /\ r.board = Board
            ELSE r.exc = "none"

\* An apply_move has just been refused on a board with a full column.
C5_Witness ==
    /\ last = "IllegalMoveException"
    /\ \E c \in Cols : Height(all_pieces, c) = NUM_ROWS
    /\ player_board # {}

RECURSIVE XorKeys(_, _)
\* The XOR of the keys SQUARE_HASHES[s] of the cells of a mask.
XorKeys(s, mask) ==
    IF mask = {} THEN {}
    ELSE LET i == CHOOSE i \in mask : TRUE
         IN  BitXor(SQUARE_HASHES[s][MOVE_MASK_TO_SQUARE_IX[{i}]], XorKeys(s, mask \ {i}))

\* The hash of a position, from its two masks alone: with an even number of
\* pieces the side to move is the side that moves on even plies.
PositionHash(pb, ap) ==
    LET odd == Cardinality(ap) % 2 = 1
        even_side == IF odd THEN BitXor(ap, pb) ELSE pb
        odd_side == IF odd THEN pb ELSE BitXor(ap, pb)
    IN  BitXor(BitXor(XorKeys(0, even_side), XorKeys(1, odd_side)),
               IF odd THEN SIDE_TO_MOVE_HASH ELSE {})

\* C8: the hash is a function of (player_board, all_pieces) alone, so two move
\* sequences that end in the same pair of masks end with the same hash.
C8_HashOfPosition ==
    hash = PositionHash(player_board, all_pieces)

\* A position that two orders of the same moves reach: the side that moved first
\* holds two cells of the bottom row, here played right to left.
C8_Witness ==
    /\ Len(move_stack) = 3
    /\ last = "apply_move"
    /\ \E c, d \in Cols : c < d /\ move_stack[1] = {Cell(d, 0)} /\ move_stack[3] = {Cell(c, 0)}

\* C9: player_board is within all_pieces, no sentinel bit of either mask is set,
\* and every column is filled from row 0 up without a gap.
C9_BoardInvariant ==
    /\ player_board \subseteq all_pieces
    /\ BitAnd(all_pieces, Sentinels) = {}
    /\ BitAnd(player_board, Sentinels) = {}
    /\ \A c \in Cols : BitAnd(all_pieces, COLUMN_MASKS[c])
                        = {Cell(c, r) : r \in 0 .. (Height(all_pieces, c) - 1)}

\* A board with stacked pieces, after a refused apply_move and after unapply_moves.
C9_Witness ==
    /\ last \in {"IllegalMoveException", "unapply_move"}
    /\ \E c \in Cols : Height(all_pieces, c) >= 2
    /\ player_board # {}

\* C10: every column of get_legal_move_cols() can be applied; get_legal_move_cols()
\* is empty exactly when 42 moves are on the stack, and exactly then is_full()
\* holds; unwinding a full board to an empty stack leaves both masks and the hash 0.
C10_FillAndUnwind ==
    /\ \A i \in 1 .. Len(get_legal_move_cols(Board)) :
           apply_move(Board, get_legal_move_cols(Board)[i]).exc = "none"
    /\ (get_legal_move_cols(Board) = <<>>) <=> (Len(move_stack) = NUM_COLS * NUM_ROWS)
    /\ is_full(Board) <=> (Len(move_stack) = NUM_COLS * NUM_ROWS)
    /\ move_stack = <<>> => all_pieces = {} /\ player_board = {} /\ hash = {}

\* The full board has been unwound by 42 unapply_moves.
C10_Witness ==
    /\ filled
    /\ last = "unapply_move"
    /\ move_stack = <<>>

(***************************************************************************)
(* The Engine as a state machine: a caller that sets a position up on the  *)
(* Board and runs one search on it with a new Engine.                      *)
(***************************************************************************)
\* The game every set-up starts with, then SearchPly plies of any legal column.
Opening == <<3, 3, 2, 2, 4>>
SearchPly == 1
\* The depths searched.
MaxDepth == 5

Engine == [transposition_table |-> transposition_table, nodes_visited |-> nodes_visited,
           branches_pruned |-> branches_pruned, tt_hits |-> tt_hits, restored |-> TRUE,
           peak |-> 0, applied |-> 0, log |-> <<>>]

SetEngine(e) ==
    /\ transposition_table' = e.transposition_table
    /\ nodes_visited' = e.nodes_visited
    /\ branches_pruned' = e.branches_pruned
    /\ tt_hits' = e.tt_hits

SetUp(c) ==
    /\ ret = <<>>
    /\ Len(move_stack) < Len(Opening) + SearchPly
    /\ Len(move_stack) < Len(Opening) => c = Opening[Len(move_stack) + 1]
    /\ apply_move(Board, c).exc = "none"
    /\ ApplyCall(c)

\* What a search call left: its value, the exception that ended it, the board it
\* was entered with, and whether every call in it restored the board.
Returned(alg, depth, r) ==
    /\ SetBoard(r.board)
    /\ SetEngine(r.engine)
    /\ ret' = [alg |-> alg, depth |-> depth, value |-> r.value, exc |-> r.exc,
               entry |-> Board, restored |-> r.engine.restored, peak |-> r.engine.peak]
    /\ UNCHANGED <<last, filled>>

\* e.negamax(board, depth)
Negamax(depth) ==
    /\ ret = <<>>
    /\ Returned("negamax", depth, negamax(Engine, Board, depth))

\* e.negamax_alphabeta(board, depth)
NegamaxAlphabeta(depth) ==
    /\ ret = <<>>
    /\ Returned("negamax_alphabeta", depth,
                negamax_alphabeta(Engine, Board, depth, LOSS_EVAL, WIN_EVAL))

\* e.negamax_alphabeta_tt(board, depth)
NegamaxAlphabetaTT(depth) ==
    /\ ret = <<>>
    /\ Returned("negamax_alphabeta_tt", depth,
                negamax_alphabeta_tt(Engine, Board, depth, LOSS_EVAL, WIN_EVAL))

\* e = Engine()
EngineNew ==
    /\ ret # <<>>
    /\ SetEngine(NewEngine)
    /\ ret' = <<>>
    /\ UNCHANGED <<boardVars, last, filled>>

NextSearch ==
    \/ \E c \in Cols : SetUp(c)
    \/ \E d \in 0 .. MaxDepth : Negamax(d)
    \/ \E d \in 0 .. MaxDepth : NegamaxAlphabeta(d)
    \/ \E d \in 0 .. MaxDepth : NegamaxAlphabetaTT(d)
    \/ EngineNew

SpecSearch == Init /\ [][NextSearch]_vars

(***************************************************************************)
(* The searches' claims, checked under SpecSearch.                         *)
(***************************************************************************)
Searched(alg) == ret # <<>> /\ ret.alg = alg

\* The side to move in b has not lost, the board is not full, and one of its
\* legal moves makes four.
ImmediateWin(b) ==
    /\ ~last_move_won(b)
    /\ ~is_full(b)
    /\ \E i \in 1 .. Len(get_legal_move_cols(b)) :
           last_move_won(apply_move(b, get_legal_move_cols(b)[i]).board)

\* C2: negamax_alphabeta with the default window returns the score plain negamax
\* returns for the same board and depth.
C2_AlphabetaEqualsNegamax ==
    Searched("negamax_alphabeta") =>
        ret.value = negamax(NewEngine, ret.entry, ret.depth).value

C4_BoardRestored ==
    ret # <<>> /\ ret.alg \in {"negamax", "negamax_alphabeta", "negamax_alphabeta_tt"} =>
        /\ ret.exc = "none"
        /\ Board = ret.entry
        /\ ret.restored

\* A table search in mid-game that used stored entries, cut branches off and
\* found a win within its depth.
C4_Witness ==
    /\ Searched("negamax_alphabeta_tt")
    /\ move_stack # <<>>
    /\ tt_hits > 0
    /\ branches_pruned > 0
    /\ ret.value > WIN_EVAL - MaxDepth

\* C7: a win found with 3 plies of search remaining scores strictly higher than
\* the same win found with 1 ply remaining, and a loss at remaining depth 3 scores
\* strictly lower than the same loss at remaining depth 1.
C7_FasterIsMoreExtreme ==
    Searched("negamax") /\ ret.depth = 3 =>
        /\ ImmediateWin(ret.entry) =>
               ret.value > negamax(NewEngine, ret.entry, 1).value
        /\ \A c \in Cols :
               LET t == apply_move(ret.entry, c)
               IN  t.exc = "none" /\ last_move_won(t.board) =>
                       negamax(NewEngine, t.board, 3).value
                           < negamax(NewEngine, t.board, 1).value

(***************************************************************************)
(* Board.has_four as a state machine: a caller that builds a mask cell by  *)
(* cell, lowest bit first, and asks has_four about each mask it builds.    *)
(***************************************************************************)
\* The most cells a mask holds.
MaxBits == 5

\* The mask of the last has_four call, 0 before the first.
FourMask == IF ret = <<>> THEN {} ELSE ret.mask

\* Board.has_four(mask | 1 << i), for a cell i above the bits of the last mask.
HasFourCall(i) ==
    /\ IF ret = <<>> THEN TRUE ELSE ret.alg = "has_four"
    /\ Cardinality(FourMask) < MaxBits
    /\ \A j \in FourMask : j < i
    /\ ret' = [alg |-> "has_four", mask |-> FourMask \cup {i},
               value |-> has_four(FourMask \cup {i})]
    /\ UNCHANGED <<boardVars, engineVars, last, filled>>

NextFour == \E i \in BOARD_MASK : HasFourCall(i)

SpecFour == Init /\ [][NextFour]_vars

(***************************************************************************)
(* has_four's claim, checked under SpecFour.                               *)
(***************************************************************************)
\* The four cells from column c, row r in steps of (dc, dr).
Line(c, r, dc, dr) == {Cell(c + k * dc, r + k * dr) : k \in 0 .. 3}

\* The lines of four cells of the 7x6 grid: up a column, along a row, and along
\* the rising and the falling diagonal.
Lines ==
    {Line(c, r, 0, 1) : c \in Cols, r \in 0 .. (NUM_ROWS - 4)}
    \cup {Line(c, r, 1, 0) : c \in 0 .. (NUM_COLS - 4), r \in 0 .. (NUM_ROWS - 1)}
    \cup {Line(c, r, 1, 1) : c \in 0 .. (NUM_COLS - 4), r \in 0 .. (NUM_ROWS - 4)}
    \cup {Line(c, r, 1, 0 - 1) : c \in 0 .. (NUM_COLS - 4), r \in 3 .. (NUM_ROWS - 1)}

\* C6: for a mask whose sentinel bits are zero, has_four(mask) is true exactly
\* when the mask holds four cells in a line of a column, a row or a diagonal.
C6_HasFour ==
    ret # <<>> /\ ret.alg = "has_four" /\ BitAnd(ret.mask, Sentinels) = {} =>
        (ret.value <=> \E l \in Lines : l \subseteq ret.mask)

\* has_four found a falling diagonal in a mask that holds one more cell.
C6_Witness ==
    /\ ret # <<>> /\ ret.alg = "has_four"
    /\ ret.value
    /\ Cardinality(ret.mask) = MaxBits
    /\ \E c \in 0 .. (NUM_COLS - 4), r \in 3 .. (NUM_ROWS - 1) :
           Line(c, r, 1, 0 - 1) \subseteq ret.mask

(***************************************************************************)
(* The Board's queries as a state machine: the caller of Spec, who between *)
(* moves asks get_legal_move_cols() or last_move_won(), looks at the       *)
(* answer, and drops it before the next move.                              *)
(***************************************************************************)
\* What a query returned, and the board it was asked of.
Answered(alg, value) ==
    /\ ret = <<>>
    /\ ret' = [alg |-> alg, value |-> value, entry |-> Board]
    /\ UNCHANGED <<boardVars, engineVars, last, filled>>

\* b.get_legal_move_cols()
GetLegalMoveCols == Answered("get_legal_move_cols", get_legal_move_cols(Board))

\* b.last_move_won()
LastMoveWon == Answered("last_move_won", last_move_won(Board))

\* The caller is done with the answer.
Drop ==
    /\ ret # <<>>
    /\ ret' = <<>>
    /\ UNCHANGED <<boardVars, engineVars, last, filled>>

NextQuery ==
    \/ \E c \in ColumnInputs : ret = <<>> /\ ApplyMove(c)
    \/ ret = <<>> /\ UnapplyMove
    \/ GetLegalMoveCols
    \/ LastMoveWon
    \/ Drop

SpecQuery == Init /\ [][NextQuery]_vars

(***************************************************************************)
(* More of the Board's claims, checked under Spec and SpecQuery.           *)
(***************************************************************************)
\* C11: get_legal_move_cols() returns, in ascending order and leaving the board as
\* it is, exactly the columns whose row-5 cell is empty; these are the columns
\* apply_move accepts; on the empty board they are 0..6.
C11_LegalMoves ==
    Searched("get_legal_move_cols") =>
        /\ Board = ret.entry
        /\ \A i, j \in 1 .. Len(ret.value) : i < j => ret.value[i] < ret.value[j]
        /\ \A c \in Cols :
               /\ (\E i \in 1 .. Len(ret.value) : ret.value[i] = c)
                      <=> Cell(c, NUM_ROWS - 1) \notin all_pieces
               /\ (\E i \in 1 .. Len(ret.value) : ret.value[i] = c)
                      <=> apply_move(Board, c).exc = "none"
        /\ \A i \in 1 .. Len(ret.value) : ret.value[i] \in Cols
        /\ all_pieces = {} => ret.value = <<0, 1, 2, 3, 4, 5, 6>>

\* get_legal_move_cols() answered on a board with full columns and columns to play.
C11_Witness ==
    /\ Searched("get_legal_move_cols")
    /\ Len(ret.value) \in 2 .. (NUM_COLS - 2)
    /\ \E c \in Cols : Height(all_pieces, c) \in 1 .. (NUM_ROWS - 1)

\* C14: unapply_move() on an empty move stack raises (IndexError) and leaves
\* all_pieces, player_board, hash and the move stack as they were.
C14_UnapplyEmpty ==
    [][move_stack = <<>> /\ last' \notin {"apply_move", "IllegalMoveException"}
           => last' = "IndexError" /\ UNCHANGED boardVars]_vars

\* An unapply_move has just been refused on an empty move stack.
C14_Witness ==
    /\ last = "IndexError"
    /\ move_stack = <<>>

\* The cells of the player who made the last move: every second move of the stack,
\* counted from its top.
MoverCells ==
    UNION {move_stack[i] : i \in {j \in 1 .. Len(move_stack) : j % 2 = Len(move_stack) % 2}}

\* C15: right after a successful apply_move, last_move_won() is true exactly when
\* the cells of the player who just moved hold four in a line.
C15_LastMoveWon ==
    Searched("last_move_won") /\ last = "apply_move" =>
        /\ MoverCells = BitXor(all_pieces, player_board)
        /\ ret.value <=> \E l \in Lines : l \subseteq MoverCells

\* last_move_won() answered false after a move, on a board where the side now to
\* move holds four in a line.
C15_Witness ==
    /\ Searched("last_move_won")
    /\ last = "apply_move"
    /\ ~ret.value
    /\ \E l \in Lines : l \subseteq player_board

\* C18: a successful apply_move(c) adds the lowest empty cell of column c to
\* all_pieces and nothing else, makes player_board the opponent's pieces of before,
\* leaves all_pieces XOR player_board as the mover's pieces of before with the new
\* cell, and pushes the cell's mask on the move stack.
C18_ApplyMoveEffect ==
    [][last' = "apply_move" /\ move_stack' # move_stack =>
           \E c \in Cols :
               LET cell == Cell(c, Height(all_pieces, c))
               IN  /\ Height(all_pieces, c) < NUM_ROWS
                   /\ cell \notin all_pieces
                   /\ all_pieces' = all_pieces \cup {cell}
                   /\ player_board' = all_pieces \ player_board
                   /\ BitXor(all_pieces', player_board') = player_board \cup {cell}
                   /\ move_stack' = Append(move_stack, {cell})]_vars

\* A piece has just been dropped on top of three others.
C18_Witness ==
    /\ last = "apply_move"
    /\ move_stack # <<>>
    /\ \E c \in Cols : move_stack[Len(move_stack)] = {Cell(c, 3)}

(***************************************************************************)
(* The Engine near the end of a game: a caller that plays a game without a *)
(* four to 36 moves, then a few plies of any legal column, and runs one    *)
(* search with a new Engine on the position it has reached.                *)
(***************************************************************************)
\* 36 moves, none of which makes four; six cells are left, in columns 1, 5 and 6,
\* and the side to move holds the three top pieces of column 6.
EndOpening ==
    <<4, 2, 2, 1, 0, 5, 3, 4, 6, 5, 3, 4, 5, 4, 3, 3, 0, 2,
      0, 2, 2, 0, 3, 2, 0, 1, 6, 1, 5, 3, 1, 0, 4, 1, 6, 4>>
\* The plies of any legal column played after EndOpening.
EndPly == 2

SetUpEnd(c) ==
    /\ ret = <<>>
    /\ Len(move_stack) < Len(EndOpening) + EndPly
    /\ Len(move_stack) < Len(EndOpening) => c = EndOpening[Len(move_stack) + 1]
    /\ apply_move(Board, c).exc = "none"
    /\ ApplyCall(c)

\* The position is set up.
EndReached == Len(move_stack) >= Len(EndOpening)

NextEnd ==
    \/ \E c \in Cols : SetUpEnd(c)
    \/ \E d \in 0 .. MaxDepth : EndReached /\ Negamax(d)
    \/ \E d \in 0 .. MaxDepth : EndReached /\ NegamaxAlphabeta(d)
    \/ \E d \in 0 .. MaxDepth : EndReached /\ NegamaxAlphabetaTT(d)
    \/ EngineNew

SpecEnd == Init /\ [][NextEnd]_vars

(***************************************************************************)
(* More of the searches' claims, checked under SpecEnd.                    *)
(***************************************************************************)
SearchReturned ==
    ret # <<>> /\ ret.alg \in {"negamax", "negamax_alphabeta", "negamax_alphabeta_tt"}

\* The cells that are empty in b.
EmptyCells(b) == NUM_COLS * NUM_ROWS - Len(b.move_stack)

\* C13: no search makes a Board call that raises: every apply_move in it is given
\* a legal column, every unapply_move finds a move on the stack, and the search
\* returns an integer score.
C13_NoBoardError ==
    SearchReturned =>
        /\ ret.exc \notin {"IllegalMoveException", "IndexError"}
        /\ ret.value \in LOSS_EVAL .. WIN_EVAL

\* A table search that went through full columns down to the full board.
C13_Witness ==
    /\ Searched("negamax_alphabeta_tt")
    /\ ret.peak = NUM_COLS * NUM_ROWS
    /\ \E c \in Cols : Height(ret.entry.all_pieces, c) = NUM_ROWS
    /\ ~is_full(ret.entry)

\* The side to move in b holds the three top pieces of a column with room above.
VerticalWin(b) ==
    \E c \in Cols :
        LET h == Height(b.all_pieces, c)
        IN  /\ h \in 3 .. (NUM_ROWS - 1)
            /\ {Cell(c, h - 1), Cell(c, h - 2), Cell(c, h - 3)} \subseteq b.player_board

C17_StackBound ==
    /\ ret = <<>> /\ EndReached =>
           \A d \in 0 .. MaxDepth :
               /\ negamax(Engine, Board, d).engine.nodes_visited > 0
               /\ negamax_alphabeta(Engine, Board, d, LOSS_EVAL, WIN_EVAL).engine.nodes_visited > 0
               /\ negamax_alphabeta_tt(Engine, Board, d, LOSS_EVAL, WIN_EVAL).engine.nodes_visited > 0
    /\ SearchReturned =>
           /\ ret.peak <= Len(ret.entry.move_stack) + Min(ret.depth, EmptyCells(ret.entry))
           /\ ret.peak <= NUM_COLS * NUM_ROWS

\* A search deeper than the cells left, which filled the board.
C17_Witness ==
    /\ Searched("negamax")
    /\ ret.depth > EmptyCells(ret.entry)
    /\ EmptyCells(ret.entry) >= 2
    /\ ret.peak = NUM_COLS * NUM_ROWS

(***************************************************************************)
(* One Engine kept over many searches: a caller that moves about the first *)
(* plies of a game and calls negamax_alphabeta_tt on the boards it passes, *)
(* every time with the same Engine and so with the table the calls before  *)
(* have left.                                                              *)
(***************************************************************************)
\* The plies the caller plays.
PersistPly == 1
\* The depths it searches.
PersistDepth == 3
\* The searches it makes.
MaxCalls == 2

PersistMove(c) ==
    /\ Len(move_stack) < PersistPly
    /\ apply_move(Board, c).exc = "none"
    /\ ApplyCall(c)

PersistUndo ==
    /\ move_stack # <<>>
    /\ UnapplyMove

\* The searches the caller has made.
Calls == IF ret = <<>> THEN 0 ELSE ret.calls

\* e.negamax_alphabeta_tt(board, depth), with e the Engine of the calls before:
\* ret keeps the Engine the call was entered with (was) and the log of the call.
PersistSearch(depth) ==
    /\ Calls < MaxCalls
    /\ LET r == negamax_alphabeta_tt(Engine, Board, depth, LOSS_EVAL, WIN_EVAL)
       IN  /\ SetBoard(r.board)
           /\ SetEngine(r.engine)
           /\ ret' = [alg |-> "negamax_alphabeta_tt", depth |-> depth, value |-> r.value,
                      exc |-> r.exc, entry |-> Board, restored |-> r.engine.restored,
                      peak |-> r.engine.peak, calls |-> Calls + 1, was |-> Engine,
                      applied |-> r.engine.applied, log |-> r.engine.log]
    /\ UNCHANGED <<last, filled>>

NextPersist ==
    \/ \E c \in Cols : PersistMove(c)
    \/ PersistUndo
    \/ \E d \in 0 .. PersistDepth : PersistSearch(d)

SpecPersist == Init /\ [][NextPersist]_vars

(***************************************************************************)
(* The table's claims, checked under SpecPersist and SpecEnd.              *)
(***************************************************************************)
\* C12: over the life of an Engine no key leaves the table, and the depth stored
\* under a key never decreases.
C12_DepthNeverDecreases ==
    [][\A h \in DOMAIN transposition_table :
           /\ h \in DOMAIN transposition_table'
           /\ transposition_table'[h].depth >= transposition_table[h].depth]_vars

\* A search of depth 0 has returned on a board whose entry, left by a call
\* before it, is deeper.
C12_Witness ==
    /\ Searched("negamax_alphabeta_tt")
    /\ ret.depth = 0
    /\ ret.entry.hash \in DOMAIN transposition_table
    /\ transposition_table[ret.entry.hash].depth > 0

\* C19: every negamax_alphabeta_tt call on an Engine whose table persists between
\* the calls returns the score plain negamax returns for the call's board and depth.
C19_PersistentTableEqualsNegamax ==
    Searched("negamax_alphabeta_tt") =>
        ret.value = negamax(NewEngine, ret.entry, ret.depth).value

\* The cell of a square index of MOVE_MASK_TO_SQUARE_IX.
CellOfIx(ix) == (ix \div NUM_ROWS) * STRIDE + (ix % NUM_ROWS)

RECURSIVE MasksOf(_)
\* The one-cell masks of a set of cells, in some order.
MasksOf(cells) ==
    IF cells = {} THEN <<>>
    ELSE LET i == CHOOSE i \in cells : TRUE
         IN  <<{i}>> \o MasksOf(cells \ {i})

\* The position a hash stands for: the keys in it name the cells of each side, and
\* the side to move is the one whose turn it is after that many moves.
PositionOfHash(h) ==
    LET n == NUM_COLS * NUM_ROWS
        even_side == {CellOfIx(k) : k \in {j \in h : j < n}}
        odd_side == {CellOfIx(k - n) : k \in {j \in h : j >= n /\ j < 2 * n}}
        ap == even_side \cup odd_side
    IN  [player_board |-> IF Cardinality(ap) % 2 = 0 THEN even_side ELSE odd_side,
         all_pieces |-> ap, move_stack |-> MasksOf(ap), hash |-> h]

\* C20: every entry of the table of a negamax_alphabeta_tt search that started
\* with an empty table is sound for plain negamax of the entry's position and
\* depth: an EXACT score equals it, a LOWER score is at most it, an UPPER score is
\* at least it.
C20_EntriesSound ==
    Searched("negamax_alphabeta_tt") =>
        \A h \in DOMAIN transposition_table :
            LET t == transposition_table[h]
                v == negamax(NewEngine, PositionOfHash(h), t.depth).value
            IN  /\ t.bound = "EXACT" => t.score = v
                /\ t.bound = "LOWER" => v >= t.score
                /\ t.bound = "UPPER" => v <= t.score

(***************************************************************************)
(* One Engine kept over several searches of an endgame position, each by   *)
(* any of the three search functions.                                      *)
(***************************************************************************)
Searches == {"negamax", "negamax_alphabeta", "negamax_alphabeta_tt"}

\* The call e.<alg>(board, depth) with an empty log.
Search(alg, e, b, depth) ==
    IF alg = "negamax" THEN negamax(e, b, depth)
    ELSE IF alg = "negamax_alphabeta"
    THEN negamax_alphabeta(e, b, depth, LOSS_EVAL, WIN_EVAL)
    ELSE negamax_alphabeta_tt(e, b, depth, LOSS_EVAL, WIN_EVAL)

\* A search on the position set up, with e the Engine of the calls before.
StatsSearch(alg, depth) ==
    /\ EndReached
    /\ Calls < MaxCalls
    /\ LET r == Search(alg, Engine, Board, depth)
       IN  /\ SetBoard(r.board)
           /\ SetEngine(r.engine)
           /\ ret' = [alg |-> alg, depth |-> depth, value |-> r.value,
                      exc |-> r.exc, entry |-> Board, restored |-> r.engine.restored,
                      peak |-> r.engine.peak, calls |-> Calls + 1, was |-> Engine,
                      applied |-> r.engine.applied, log |-> r.engine.log]
    /\ UNCHANGED <<last, filled>>

NextStats ==
    \/ \E c \in Cols : SetUpEnd(c)
    \/ \E alg \in Searches : \E d \in 0 .. MaxDepth : StatsSearch(alg, d)

SpecStats == Init /\ [][NextStats]_vars

(***************************************************************************)
(* What a search does at each node: the counters, checked under SpecStats, *)
(* and the table, checked under SpecPersist.                               *)
(***************************************************************************)
\* The events of one kind in the log of the last search, by their place in it.
Events(kind) == {j \in 1 .. Len(ret.log) : ret.log[j].kind = kind}

RECURSIVE PrunedIn(_, _)
\* What the loops of the first n events of a log added to branches_pruned.
PrunedIn(log, n) ==
    IF n = 0 THEN 0
    ELSE PrunedIn(log, n - 1) + (IF log[n].kind = "loop" THEN log[n].pruned ELSE 0)

RECURSIVE AppliedIn(_, _)
\* The candidates the loops of the first n events of a log applied.
AppliedIn(log, n) ==
    IF n = 0 THEN 0
    ELSE AppliedIn(log, n - 1) + (IF log[n].kind = "loop" THEN log[n].applied ELSE 0)

\* C24: a search adds to nodes_visited, on top of what the calls before left, 1
\* for each call of the search function; and each loop of negamax_alphabeta and
\* negamax_alphabeta_tt over k legal moves adds to branches_pruned k less the
\* candidates it applied (nothing when it applied them all), the apply_move calls
\* of the search being those its loops account for.
C24_Accounting ==
    SearchReturned =>
        /\ ret.exc = "none"
        /\ nodes_visited = ret.was.nodes_visited + Cardinality(Events("node"))
        /\ ret.alg = "negamax" => branches_pruned = ret.was.branches_pruned
        /\ ret.alg # "negamax" =>
               /\ \A j \in Events("loop") :
                      /\ ret.log[j].k >= 1
                      /\ ret.log[j].applied \in 1 .. ret.log[j].k
                      /\ ret.log[j].applied + ret.log[j].pruned = ret.log[j].k
               /\ branches_pruned =
                      ret.was.branches_pruned + PrunedIn(ret.log, Len(ret.log))
               /\ ret.applied = AppliedIn(ret.log, Len(ret.log))

\* A second search on an Engine that has counted nodes and prunings already: it
\* has a loop that stopped early over more than one untried candidate, and a
\* loop that tried everything.
C24_Witness ==
    /\ SearchReturned
    /\ ret.alg # "negamax"
    /\ ret.calls = 2
    /\ ret.was.nodes_visited > 1
    /\ ret.was.branches_pruned > 0
    /\ \E j \in Events("loop") : ret.log[j].pruned >= 2
    /\ \E j \in Events("loop") : ret.log[j].k >= 2 /\ ret.log[j].pruned = 0

\* The entry a node found is as deep as the node was asked to search.
Deep(ev) == ev.stored.depth >= ev.depth

\* C21: at a node of negamax_alphabeta_tt that is not terminal, tt_hits is
\* incremented exactly when the entry found has a depth >= the requested depth;
\* then an EXACT entry's score is returned with nothing searched and nothing
\* stored, a LOWER entry only raises alpha and an UPPER entry only lowers beta;
\* the node enumerates no move only when the entry is EXACT or the narrowed
\* window has alpha >= beta; a shallower entry, or none, leaves alpha, beta and
\* tt_hits as they were.  tt_hits grows by just these increments.
C21_Lookup ==
    Searched("negamax_alphabeta_tt") =>
        /\ \A j \in Events("node") :
               LET ev == ret.log[j]
               IN  IF ev.terminal
                   THEN ev.hits = 0 /\ ~ev.searched
                   ELSE /\ ev.hits = IF Deep(ev) THEN 1 ELSE 0
                        /\ ~Deep(ev) =>
                               ev.searched /\ ev.al = ev.alpha /\ ev.be = ev.beta
                        /\ Deep(ev) /\ ev.stored.bound = "EXACT" =>
                               /\ ~ev.searched
                               /\ ev.value = ev.stored.score
                               /\ j = ev.first + 1
                        /\ Deep(ev) /\ ev.stored.bound = "LOWER" =>
                               /\ ev.al = Max(ev.alpha, ev.stored.score)
                               /\ ev.be = ev.beta
                        /\ Deep(ev) /\ ev.stored.bound = "UPPER" =>
                               /\ ev.al = ev.alpha
                               /\ ev.be = Min(ev.beta, ev.stored.score)
                        /\ ev.searched <=>
                               ~(Deep(ev) /\ (ev.stored.bound = "EXACT" \/ ev.al >= ev.be))
        /\ tt_hits = ret.was.tt_hits
                     + Cardinality({j \in Events("node") : ret.log[j].hits = 1})

\* A search on a table filled by the search before it has nodes, none terminal,
\* that find an EXACT entry deep enough, an entry that narrows the window and
\* leaves it open, and an entry that closes it.
C21_Witness ==
    /\ Searched("negamax_alphabeta_tt")
    /\ ret.calls = 2
    /\ \E j \in Events("node") :
           LET ev == ret.log[j]
           IN  ~ev.terminal /\ Deep(ev) /\ ev.stored.bound = "EXACT"
    /\ \E j \in Events("node") :
           LET ev == ret.log[j]
           IN  /\ ~ev.terminal /\ Deep(ev) /\ ev.searched
               /\ ev.al > ev.alpha \/ ev.be < ev.beta
    /\ \E j \in Events("node") :
           LET ev == ret.log[j]
           IN  ~ev.terminal /\ ~ev.searched /\ ev.stored.bound # "EXACT"

\* The tag of a value returned for a window.
Tag(value, alpha, beta) ==
    IF value <= alpha THEN "UPPER"
    ELSE IF value >= beta THEN "LOWER"
    ELSE "EXACT"

\* The last store of a log under key h, 0 when there is none.
LastWrite(log, h) ==
    LET ws == {j \in 1 .. Len(log) : log[j].kind = "write" /\ log[j].key = h}
    IN  IF ws = {} THEN 0 ELSE CHOOSE j \in ws : \A i \in ws : i <= j

\* C22: every store of negamax_alphabeta_tt is the last thing its node does; its
\* key is the hash of the position the node was called with, its depth the depth
\* the node was called with, its score the value the node returns, and its tag
\* UPPER if that value <= the alpha the node was called with, otherwise LOWER if
\* it is >= the beta it was called with, otherwise EXACT.  The table after the
\* search holds, under each key, the last of these stores, or what it held before.
C22_Stores ==
    Searched("negamax_alphabeta_tt") =>
        /\ \A j \in Events("write") :
               /\ j < Len(ret.log)
               /\ LET w == ret.log[j]
                      ev == ret.log[j + 1]
                  IN  /\ ev.kind = "node"
                      /\ w.key = ev.node
                      /\ w.entry = [depth |-> ev.depth, score |-> ev.value,
                                    bound |-> Tag(ev.value, ev.alpha, ev.beta)]
        /\ \A h \in DOMAIN transposition_table :
               LET j == LastWrite(ret.log, h)
               IN  IF j = 0
                   THEN /\ h \in DOMAIN ret.was.transposition_table
                        /\ transposition_table[h] = ret.was.transposition_table[h]
                   ELSE transposition_table[h] = ret.log[j].entry

\* A search on a table filled by the search before it stores entries of the
\* three tags, one of them at a node that searched a window its lookup had
\* narrowed, where the narrowed window would give another tag.
C22_Witness ==
    /\ Searched("negamax_alphabeta_tt")
    /\ ret.calls = 2
    /\ \A t \in {"UPPER", "LOWER", "EXACT"} :
           \E j \in Events("write") : ret.log[j].entry.bound = t
    /\ \E j \in Events("write") :
           LET ev == ret.log[j + 1]
           IN  /\ ev.searched
               /\ Tag(ev.value, ev.alpha, ev.beta) # Tag(ev.value, ev.al, ev.be)

(***************************************************************************)
(* The balance of the pieces, checked under Spec.                          *)
(***************************************************************************)
\* C23: the move stack is as long as the number of occupied cells; of its k moves
\* the player who moved last holds ceil(k/2) pieces and the side to move
\* floor(k/2).
C23_PieceBalance ==
    LET k == Len(move_stack)
    IN  /\ Cardinality(all_pieces) = k
        /\ Cardinality(BitXor(all_pieces, player_board)) = (k + 1) \div 2
        /\ Cardinality(player_board) = k \div 2

\* An odd number of moves is left on the board after an unapply_move.
C23_Witness ==
    /\ last = "unapply_move"
    /\ Len(move_stack) % 2 = 1
    /\ Len(move_stack) >= 5
====
